---- MODULE Spec2Model ----
(***************************************************************************)
(* DriftGuard drift analysis: the analyze endpoint (DriftViewSet.analyze), *)
(* the Celery task analyze_drift_task, MLService and RecommendationEngine  *)
(* as given in architecture_files/driftguard_system_architecture.md.       *)
(*                                                                         *)
(* Probabilities, confidences and severities are DECIMAL(3,2) values; the  *)
(* model keeps them as integers in hundredths (0.8 is 80).                 *)
(***************************************************************************)
EXTENDS Integers, Sequences, FiniteSets, TLC

VARIABLES
    resolved,        \* drift id -> resolved_at is set
    production,      \* drift id -> the drift's environment is production
    modelOut,        \* drift id -> what the two models output for its features
    jobs,            \* Celery tasks of analyze_drift_task, in submission order
    analyses,        \* rows of drift_cause_analysis
    recommendations, \* rows of recommendations
    driftScore,      \* drift id -> severity_score / confidence_score columns
    featureCalls,    \* drift id -> number of extract_drift_features calls
    now,             \* the clock, in hours
    recIn,           \* input of one generate_recommendations call
    recOut,          \* what that call returned
    mlIn,            \* what a model outputs for one feature vector
    mlOut,           \* what MLService returned for it
    ext,             \* one run of the task through feature extraction
    recStore,        \* rows of recommendations, with their timestamps
    recClock,        \* the clock of the recommendations table, in hours
    activeOut,       \* the last answer of the active-recommendations query
    page,            \* the Drifts page / Dashboard: list shown, requests in flight
    wiz,             \* the Create Environment wizard of the Environments page
    auth,            \* localStorage tokens and the PrivateRoute on screen
    chat             \* the AiChat component

vars == <<resolved, production, modelOut, jobs, analyses, recommendations,
          driftScore, featureCalls, now, recIn, recOut,
          mlIn, mlOut, ext, recStore, recClock, activeOut,
          page, wiz, auth, chat>>

\* the variables of the frontend components
uiVars == <<page, wiz, auth, chat>>

\* the variables of the specifications that look at one component alone
sideVars == <<mlIn, mlOut, ext, recStore, recClock, activeOut, uiVars>>

pipelineVars == <<resolved, production, modelOut, jobs, analyses,
                  recommendations, driftScore, featureCalls, now>>

(* ------------------------------ bounds -------------------------------- *)

MaxDrift == 2
MaxJobs == 2
MaxClock == 1
MaxBatches == 2
MaxRecClock == 24
MaxCalls == 2

\* visibility detections of the wizard in flight at once
MaxDetect == 2

\* handleFinish calls of the wizard in flight at once
MaxFinish == 2

\* login and register requests in flight at once
MaxRequests == 2

\* messages of the chat
MaxMessages == 7

Drifts == 1..MaxDrift

Null == "null"

(* --------------------------- policy constants -------------------------- *)

HighConfidence == 80
SecurityEscalation == 70
CriticalSeverity == 80
HighSeverity == 60
MediumSeverity == 40
ConfidenceFloor == 35
CacheHours == 1
ExpiryHours == 24

(* --------------------------- helper operators -------------------------- *)

RECURSIVE SeqMax(_)
SeqMax(s) ==
    IF Len(s) = 1 THEN s[1]
    ELSE LET m == SeqMax(Tail(s)) IN IF s[1] >= m THEN s[1] ELSE m

\* numpy argmax: the first index that holds the maximum
ArgMax(s) == CHOOSE i \in 1..Len(s) :
                /\ s[i] = SeqMax(s)
                /\ \A k \in 1..(i - 1) : s[k] < s[i]

\* how many elements of the sequence s have the given recommendation_type
CountType(s, t) == Cardinality({ i \in 1..Len(s) : s[i].recommendation_type = t })

TypesOf(s) == { s[i].recommendation_type : i \in 1..Len(s) }

(* ------------------------------ MLService ------------------------------ *)

\* model.classes_ of the cause classifier (sorted, as scikit-learn keeps them)
Classes == << "automated_response", "configuration_error", "emergency_fix",
              "manual_troubleshooting", "security_response" >>

CauseCategories == { Classes[i] : i \in 1..Len(Classes) }

predict_drift_cause(probabilities) ==
    [ cause_category |-> Classes[ArgMax(probabilities)],
      probabilities  |-> probabilities,
      confidence     |-> SeqMax(probabilities) ]

\* a scorer that reports the mean of the four dimensions as the overall score
calculate_severity_average(severity_scores) ==
    [ security    |-> severity_scores[1],
      performance |-> severity_scores[2],
      cost        |-> severity_scores[3],
      compliance  |-> severity_scores[4],
      overall     |-> (severity_scores[1] + severity_scores[2]
                       + severity_scores[3] + severity_scores[4]) \div 4 ]

calculate_severity(severity_scores) ==
    [ security    |-> severity_scores[1],
      performance |-> severity_scores[2],
      cost        |-> severity_scores[3],
      compliance  |-> severity_scores[4],
      overall     |-> SeqMax(severity_scores) ]

(* ------------------------- RecommendationEngine ------------------------ *)

\* Drifts.getSeverityLabel, the label of a severity score
getSeverityLabel(score) ==
    IF score >= CriticalSeverity THEN "Critical"
    ELSE IF score >= HighSeverity THEN "High"
    ELSE IF score >= MediumSeverity THEN "Medium"
    ELSE "Low"

\* the priority choices of the Recommendation model, by label
PriorityOf(label) ==
    CASE label = "Critical" -> "critical"
      [] label = "High"     -> "high"
      [] label = "Medium"   -> "medium"
      [] OTHER              -> "low"

_create_auto_revert_recommendation(drift_event, ml_analysis) ==
    [ recommendation_type |-> "auto_revert", priority |-> "medium" ]

_create_codify_recommendation(drift_event, ml_analysis) ==
    [ recommendation_type |-> "codify_iac", priority |-> "medium" ]

_create_review_recommendation(drift_event, ml_analysis, priority) ==
    [ recommendation_type |-> "escalate_review", priority |-> priority ]

_create_escalate_recommendation(drift_event, reason) ==
    [ recommendation_type |-> "escalate_review", priority |-> "critical" ]

_create_manual_review_recommendation(drift_event) ==
    [ recommendation_type |-> "manual_review",
      priority |-> PriorityOf(getSeverityLabel(drift_event.severity_score)) ]

_is_production_environment(drift_event) == drift_event.production

\* the branch a missing confidence test would leave: the category alone decides
high_confidence_recommendations_unguarded(drift_event, ml_analysis) ==
    IF ml_analysis.cause_category = "configuration_error"
    THEN << _create_auto_revert_recommendation(drift_event, ml_analysis) >>
    ELSE IF ml_analysis.cause_category = "emergency_fix"
    THEN << _create_codify_recommendation(drift_event, ml_analysis) >>
    ELSE IF ml_analysis.cause_category = "security_response"
    THEN << _create_review_recommendation(drift_event, ml_analysis, "critical") >>
    ELSE << >>

\* the same branch with a strict comparison, as in the pipeline design sketch
high_confidence_recommendations_strict(drift_event, ml_analysis) ==
    IF ml_analysis.confidence_score > HighConfidence
    THEN high_confidence_recommendations_unguarded(drift_event, ml_analysis)
    ELSE << >>

\* generate_recommendations, first block: "High-confidence predictions get
\* automated recommendations", an if / elif chain on the cause category
high_confidence_recommendations(drift_event, ml_analysis) ==
    IF ml_analysis.confidence_score >= HighConfidence
    THEN IF ml_analysis.cause_category = "configuration_error"
         THEN << _create_auto_revert_recommendation(drift_event, ml_analysis) >>
         ELSE IF ml_analysis.cause_category = "emergency_fix"
         THEN << _create_codify_recommendation(drift_event, ml_analysis) >>
         ELSE IF ml_analysis.cause_category = "security_response"
         THEN << _create_review_recommendation(drift_event, ml_analysis, "critical") >>
         ELSE << >>
    ELSE << >>

\* generate_recommendations, second block: "Context-based recommendations"
context_recommendations(drift_event, ml_analysis) ==
    IF /\ _is_production_environment(drift_event)
       /\ ml_analysis.severity.security > SecurityEscalation
    THEN << _create_escalate_recommendation(drift_event, "Security impact requires CISO review") >>
    ELSE << >>

\* the engine without the "if not recommendations" test before the default
generate_recommendations_always_default(drift_event, ml_analysis) ==
    high_confidence_recommendations(drift_event, ml_analysis)
        \o context_recommendations(drift_event, ml_analysis)
        \o << _create_manual_review_recommendation(drift_event) >>

\* an engine that issues nothing for a drift that already has recommendations
generate_recommendations_once(drift_event, ml_analysis) ==
    LET recs == high_confidence_recommendations(drift_event, ml_analysis)
                    \o context_recommendations(drift_event, ml_analysis)
    IN  IF \E r \in recommendations : r.drift_event = drift_event.id
        THEN << >>
        ELSE IF recs = << >>
             THEN << _create_manual_review_recommendation(drift_event) >>
             ELSE recs

\* RecommendationEngine.generate_recommendations
generate_recommendations(drift_event, ml_analysis) ==
    LET recs == high_confidence_recommendations(drift_event, ml_analysis)
                    \o context_recommendations(drift_event, ml_analysis)
    IN  IF recs = << >>
        THEN << _create_manual_review_recommendation(drift_event) >>
        ELSE recs

(* ----------------------- inputs of the pipeline ------------------------ *)

\* what the classifier (predict_proba, in the order of Classes) and the
\* severity predictor return for the features of a drift event
PipelineOutputs ==
    { [ probabilities |-> <<2, 92, 2, 2, 2>>,     severity_scores |-> <<85, 10, 10, 10>> ],
      [ probabilities |-> <<20, 30, 20, 15, 15>>, severity_scores |-> <<20, 50, 10, 10>> ],
      [ probabilities |-> <<10, 50, 20, 10, 10>>, severity_scores |-> <<75, 20, 10, 10>> ],
      [ probabilities |-> <<5, 5, 5, 5, 80>>,     severity_scores |-> <<85, 10, 10, 90>> ] }

NoScore == [ severity_score |-> Null, confidence_score |-> Null ]

(* ---------------------------- job bookkeeping --------------------------- *)

JobIds == 1..Len(jobs)

NonTerminal(j) == jobs[j].state \in {"queued", "running"}

\* a task declared with autoretry_for would go back to the queue instead
OnExceptionRetry(job, error) ==
    [ job EXCEPT !.state = "queued", !.pc = "queued", !.error = error ]

\* Celery: an exception that leaves the task body marks the task FAILURE and
\* stores the exception; the task declares no retry
OnException(job, error) ==
    [ job EXCEPT !.state = "failed", !.pc = "done", !.error = error ]

\* the exception a step of the task body can raise
ErrorAt(pc) ==
    CASE pc = "extract"       -> "DoesNotExist"
      [] pc = "predict"       -> "FileNotFoundError"
      [] pc = "generate"      -> "KeyError"
      [] OTHER                -> "DatabaseError"

(* -------------------------------- Init --------------------------------- *)

InitPipeline ==
    /\ resolved = [d \in Drifts |-> FALSE]
    /\ production \in [Drifts -> BOOLEAN]
    /\ modelOut \in [Drifts -> PipelineOutputs]
    /\ jobs = << >>
    /\ analyses = {}
    /\ recommendations = {}
    /\ driftScore = [d \in Drifts |-> NoScore]
    /\ featureCalls = [d \in Drifts |-> 0]
    /\ now = 0

NoInput == [ drift_event |-> Null, ml_analysis |-> Null ]

\* no frontend component is mounted
UiIdle ==
    /\ page = << >>
    /\ wiz = << >>
    /\ auth = << >>
    /\ chat = << >>

\* nothing has been given to a component on its own
SideIdle ==
    /\ UiIdle
    /\ mlIn = << >>
    /\ mlOut = << >>
    /\ ext = << >>
    /\ recStore = {}
    /\ recClock = 0
    /\ activeOut = {}

Init ==
    /\ InitPipeline
    /\ recIn = NoInput
    /\ recOut = << >>
    /\ SideIdle

(* ------------------------- DriftViewSet actions ------------------------- *)

\* DriftViewSet.analyze: analyze_drift_task.delay(drift.id, context) and a
\* 202 response with the new task id, whatever the state of the drift
analyze(d) ==
    /\ Len(jobs) < MaxJobs
    /\ jobs' = Append(jobs, [ drift |-> d, state |-> "queued", pc |-> "queued",
                              error |-> Null, cause_analysis |-> Null,
                              severity |-> Null, pending |-> << >>,
                              finished_at |-> Null,
                              submitted_resolved |-> resolved[d],
                              loaded_resolved |-> FALSE ])
    /\ UNCHANGED <<resolved, production, modelOut, analyses, recommendations,
                   driftScore, featureCalls, now, recIn, recOut, sideVars>>

\* DriftViewSet.resolve: sets resolved_at and saves the drift (resolving a
\* resolved drift again only renews the timestamp, which the model does not keep)
resolve(d) ==
    /\ ~resolved[d]
    /\ resolved' = [resolved EXCEPT ![d] = TRUE]
    /\ UNCHANGED <<production, modelOut, jobs, analyses, recommendations,
                   driftScore, featureCalls, now, recIn, recOut, sideVars>>

(* --------------------------- analyze_drift_task ------------------------- *)

\* a worker pool behind one global lock: a task starts only when no other runs
StartTaskGlobalLock(j) ==
    /\ jobs[j].state = "queued"
    /\ \A k \in JobIds : jobs[k].state # "running"
    /\ jobs' = [jobs EXCEPT ![j].state = "running", ![j].pc = "extract",
                            ![j].loaded_resolved = resolved[jobs[j].drift]]
    /\ UNCHANGED <<resolved, production, modelOut, analyses, recommendations,
                   driftScore, featureCalls, now, recIn, recOut, sideVars>>

\* a worker that leaves the task of a resolved drift in the queue
StartTaskUnlessResolved(j) ==
    /\ jobs[j].state = "queued"
    /\ ~resolved[jobs[j].drift]
    /\ jobs' = [jobs EXCEPT ![j].state = "running", ![j].pc = "extract",
                            ![j].loaded_resolved = resolved[jobs[j].drift]]
    /\ UNCHANGED <<resolved, production, modelOut, analyses, recommendations,
                   driftScore, featureCalls, now, recIn, recOut, sideVars>>

\* a worker takes the task from the queue; drift = DriftEvent.objects.get(id=
\* drift_id) reads the row, resolved_at included, into the task's own object
StartTask(j) ==
    /\ jobs[j].state = "queued"
    /\ jobs' = [jobs EXCEPT ![j].state = "running", ![j].pc = "extract",
                            ![j].loaded_resolved = resolved[jobs[j].drift]]
    /\ UNCHANGED <<resolved, production, modelOut, analyses, recommendations,
                   driftScore, featureCalls, now, recIn, recOut, sideVars>>

\* features = extract_drift_features(drift, context_data or {})
ExtractFeatures(j) ==
    /\ jobs[j].state = "running" /\ jobs[j].pc = "extract"
    /\ featureCalls' = [featureCalls EXCEPT ![jobs[j].drift] = @ + 1]
    /\ jobs' = [jobs EXCEPT ![j].pc = "predict"]
    /\ UNCHANGED <<resolved, production, modelOut, analyses, recommendations,
                   driftScore, now, recIn, recOut, sideVars>>

\* cause_analysis = predict_drift_cause(features); severity = calculate_severity(features)
Predict(j) ==
    /\ jobs[j].state = "running" /\ jobs[j].pc = "predict"
    /\ LET out == modelOut[jobs[j].drift] IN
        jobs' = [jobs EXCEPT ![j].pc = "save_analysis",
                             ![j].cause_analysis = predict_drift_cause(out.probabilities),
                             ![j].severity = calculate_severity(out.severity_scores)]
    /\ UNCHANGED <<resolved, production, modelOut, analyses, recommendations,
                   driftScore, featureCalls, now, recIn, recOut, sideVars>>

\* DriftCauseAnalysis.objects.create(...): a new row, committed at once
SaveCauseAnalysis(j) ==
    /\ jobs[j].state = "running" /\ jobs[j].pc = "save_analysis"
    /\ analyses' = analyses \cup
                        { [ drift_event      |-> jobs[j].drift,
                            cause_category   |-> jobs[j].cause_analysis.cause_category,
                            confidence_score |-> jobs[j].cause_analysis.confidence,
                            job              |-> j ] }
    /\ jobs' = [jobs EXCEPT ![j].pc = "save_drift"]
    /\ UNCHANGED <<resolved, production, modelOut, recommendations,
                   driftScore, featureCalls, now, recIn, recOut, sideVars>>

\* drift.severity_score = ...; drift.confidence_score = ...; drift.save():
\* Model.save() without update_fields writes every column of the task's
\* object, so resolved_at goes back to what the task read when it started
SaveDrift(j) ==
    /\ jobs[j].state = "running" /\ jobs[j].pc = "save_drift"
    /\ driftScore' = [driftScore EXCEPT ![jobs[j].drift] =
                         [ severity_score   |-> jobs[j].severity.overall,
                           confidence_score |-> jobs[j].cause_analysis.confidence ]]
    /\ resolved' = [resolved EXCEPT ![jobs[j].drift] = jobs[j].loaded_resolved]
    /\ jobs' = [jobs EXCEPT ![j].pc = "generate"]
    /\ UNCHANGED <<production, modelOut, analyses, recommendations,
                   featureCalls, now, recIn, recOut, sideVars>>

\* the drift_event argument of the engine: the drift as the task holds it
DriftEventOf(j) ==
    [ id             |-> jobs[j].drift,
      production     |-> production[jobs[j].drift],
      severity_score |-> jobs[j].severity.overall ]

\* the ml_analysis argument of the engine: the values the task computed, under
\* the keys the engine reads (confidence_score, severity).  The task passes the
\* dict of predict_drift_cause as it is, whose key is 'confidence': a KeyError
\* at this call is one of the exceptions Raise covers.
MlAnalysisOf(j) ==
    [ cause_category   |-> jobs[j].cause_analysis.cause_category,
      confidence_score |-> jobs[j].cause_analysis.confidence,
      severity         |-> jobs[j].severity ]

\* recommendations = engine.generate_recommendations(drift, cause_analysis, context_data)
Generate(j) ==
    /\ jobs[j].state = "running" /\ jobs[j].pc = "generate"
    /\ jobs' = [jobs EXCEPT ![j].pc = "save_recs",
                            ![j].pending = generate_recommendations(DriftEventOf(j), MlAnalysisOf(j))]
    /\ UNCHANGED <<resolved, production, modelOut, analyses, recommendations,
                   driftScore, featureCalls, now, recIn, recOut, sideVars>>

\* the rows of recommendations that run j wrote
BatchOf(j) == { r \in recommendations : r.job = j }

\* the rows of drift_cause_analysis that run j wrote
AnalysesOf(j) == { a \in analyses : a.job = j }

\* for rec in recommendations: rec.save()  (one iteration)
SaveRec(j) ==
    /\ jobs[j].state = "running" /\ jobs[j].pc = "save_recs"
    /\ jobs[j].pending # << >>
    /\ LET rec == Head(jobs[j].pending) IN
        recommendations' = recommendations \cup
                                { [ drift_event         |-> jobs[j].drift,
                                    recommendation_type |-> rec.recommendation_type,
                                    priority            |-> rec.priority,
                                    job                 |-> j,
                                    n                   |-> Cardinality(BatchOf(j)) + 1 ] }
    /\ jobs' = [jobs EXCEPT ![j].pending = Tail(@)]
    /\ UNCHANGED <<resolved, production, modelOut, analyses,
                   driftScore, featureCalls, now, recIn, recOut, sideVars>>

\* the loop is over: return {...}, Celery marks the task SUCCESS
Finish(j) ==
    /\ jobs[j].state = "running" /\ jobs[j].pc = "save_recs"
    /\ jobs[j].pending = << >>
    /\ jobs' = [jobs EXCEPT ![j].state = "completed", ![j].pc = "done",
                            ![j].finished_at = now]
    /\ UNCHANGED <<resolved, production, modelOut, analyses, recommendations,
                   driftScore, featureCalls, now, recIn, recOut, sideVars>>

\* a step of the task body raises (the row is gone, the model file is
\* missing, the database rejects a write, the engine reads a key that
\* predict_drift_cause does not return): nothing is rolled back
Raise(j) ==
    /\ jobs[j].state = "running"
    /\ jobs' = [jobs EXCEPT ![j] = OnException(jobs[j], ErrorAt(jobs[j].pc))]
    /\ UNCHANGED <<resolved, production, modelOut, analyses, recommendations,
                   driftScore, featureCalls, now, recIn, recOut, sideVars>>

\* time passes
Tick ==
    /\ now < MaxClock
    /\ now' = now + 1
    /\ UNCHANGED <<resolved, production, modelOut, jobs, analyses,
                   recommendations, driftScore, featureCalls, recIn, recOut, sideVars>>

Next ==
    \/ \E d \in Drifts : analyze(d)
    \/ \E d \in Drifts : resolve(d)
    \/ \E j \in JobIds : StartTask(j)
    \/ \E j \in JobIds : ExtractFeatures(j)
    \/ \E j \in JobIds : Predict(j)
    \/ \E j \in JobIds : SaveCauseAnalysis(j)
    \/ \E j \in JobIds : SaveDrift(j)
    \/ \E j \in JobIds : Generate(j)
    \/ \E j \in JobIds : SaveRec(j)
    \/ \E j \in JobIds : Finish(j)
    \/ \E j \in JobIds : Raise(j)
    \/ Tick

Spec == Init /\ [][Next]_vars

(* ------------- the engine alone, over a grid of its inputs -------------- *)

\* confidences around the 0.8 threshold (the top probability of five classes
\* is at least 0.2)
ConfidenceValues == {20, 34, 35, 50, 79, 80, 81, 92, 100}

\* severity_scores around the 0.7 escalation threshold (security) and the
\* 0.4 / 0.6 / 0.8 priority thresholds (overall)
ScoreVectors ==
    { <<s, p, 0, 0>> : s \in {0, 70, 71, 85}, p \in {0, 39, 40, 59, 60, 79, 80, 100} }

RecInputs ==
    { [ drift_event |-> [ id |-> 1, production |-> prod,
                          severity_score |-> calculate_severity(sc).overall ],
        ml_analysis |-> [ cause_category |-> cat, confidence_score |-> conf,
                          severity |-> calculate_severity(sc) ] ] :
        prod \in BOOLEAN, cat \in CauseCategories,
        conf \in ConfidenceValues, sc \in ScoreVectors }

InitRec ==
    /\ resolved = [d \in Drifts |-> FALSE]
    /\ production = [d \in Drifts |-> FALSE]
    /\ modelOut = [d \in Drifts |-> CHOOSE o \in PipelineOutputs : TRUE]
    /\ jobs = << >>
    /\ analyses = {}
    /\ recommendations = {}
    /\ driftScore = [d \in Drifts |-> NoScore]
    /\ featureCalls = [d \in Drifts |-> 0]
    /\ now = 0
    /\ recIn \in RecInputs
    /\ recOut = << >>
    /\ SideIdle

\* one call of the engine on the drawn input
Recommend ==
    /\ recOut = << >>
    /\ recOut' = generate_recommendations(recIn.drift_event, recIn.ml_analysis)
    /\ UNCHANGED <<pipelineVars, recIn, sideVars>>

NextRec == Recommend

SpecRec == InitRec /\ [][NextRec]_vars

(* ------------- MLService alone, over a grid of model outputs ------------ *)

\* the tables are empty and no task has been submitted
PipelineIdle ==
    /\ resolved = [d \in Drifts |-> FALSE]
    /\ production = [d \in Drifts |-> FALSE]
    /\ modelOut = [d \in Drifts |-> CHOOSE o \in PipelineOutputs : TRUE]
    /\ jobs = << >>
    /\ analyses = {}
    /\ recommendations = {}
    /\ driftScore = [d \in Drifts |-> NoScore]
    /\ featureCalls = [d \in Drifts |-> 0]
    /\ now = 0
    /\ recIn = NoInput
    /\ recOut = << >>

\* predict_proba rows: five probabilities that sum to 1, with exact ties and
\* differences of 0.01 at the top
ProbabilityGrid == {0, 4, 5, 10, 20, 30, 40, 41, 100}

ProbabilityVectors ==
    { p \in ProbabilityGrid \X ProbabilityGrid \X ProbabilityGrid
             \X ProbabilityGrid \X ProbabilityGrid :
         p[1] + p[2] + p[3] + p[4] + p[5] = 100 }

\* severity_model.predict rows: a regressor's four outputs, which nothing
\* keeps inside [0, 1]
SeverityGrid == {0 - 10, 0, 50, 100, 120}

SeverityOutputs == SeverityGrid \X SeverityGrid \X SeverityGrid \X SeverityGrid

MLInputs ==
    [ kind : {"classify"}, values : ProbabilityVectors ]
        \cup [ kind : {"score"}, values : SeverityOutputs ]

InitML ==
    /\ PipelineIdle
    /\ UiIdle
    /\ mlIn \in MLInputs
    /\ mlOut = << >>
    /\ ext = << >>
    /\ recStore = {}
    /\ recClock = 0
    /\ activeOut = {}

\* one call of predict_drift_cause on the drawn probabilities
Classify ==
    /\ mlIn.kind = "classify"
    /\ mlOut = << >>
    /\ mlOut' = << predict_drift_cause(mlIn.values) >>
    /\ UNCHANGED <<pipelineVars, recIn, recOut, mlIn, ext, recStore, recClock,
                   activeOut, uiVars>>

\* one call of calculate_severity on the drawn scores
Score ==
    /\ mlIn.kind = "score"
    /\ mlOut = << >>
    /\ mlOut' = << calculate_severity(mlIn.values) >>
    /\ UNCHANGED <<pipelineVars, recIn, recOut, mlIn, ext, recStore, recClock,
                   activeOut, uiVars>>

NextML ==
    \/ Classify
    \/ Score

SpecML == InitML /\ [][NextML]_vars

\* CHECK (severity_score >= 0 AND severity_score <= 1), and the same CHECK on
\* confidence_score: a write of any other value is rejected
ScoreCheck(x) == x >= 0 /\ x <= 100

(* ------- the task up to its feature vector: context and validation ------ *)

ContextRetries == 3

\* correlation_type: the kinds of context a bundle can hold
ContextCategories == { "git_commit", "incident_ticket", "monitoring_alert" }

\* the context argument of a request: none, or a bundle of some categories
ContextArguments ==
    [ given : {FALSE}, categories : {{}} ]
        \cup [ given : {TRUE}, categories : SUBSET ContextCategories ]

\* context_data or {}
ContextOrEmpty(context_data) ==
    IF context_data.given THEN context_data.categories ELSE {}

\* actual_state = JSONField(), declared_state = JSONField(null=True)
DriftStates == [ has_actual_state : BOOLEAN, has_declared_state : BOOLEAN ]

WellFormed(drift) == drift.has_actual_state /\ drift.has_declared_state

\* the contextual features: a category that the bundle lacks counts zero
ContextualFeatures(bundle) ==
    [ c \in ContextCategories |-> IF c \in bundle THEN 1 ELSE 0 ]

ZeroContext == [ c \in ContextCategories |-> 0 ]

InitExtract ==
    /\ PipelineIdle
    /\ UiIdle
    /\ mlIn = << >>
    /\ mlOut = << >>
    /\ recStore = {}
    /\ recClock = 0
    /\ activeOut = {}
    /\ \E drift \in DriftStates, context_data \in ContextArguments :
          ext = [ drift        |-> drift,
                  context_data |-> context_data,
                  job          |-> [ state |-> "queued", pc |-> "queued", error |-> Null ],
                  bundle       |-> {},
                  retries      |-> 0,
                  degraded     |-> FALSE,
                  features     |-> << >> ]

ExtUnchanged ==
    UNCHANGED <<pipelineVars, recIn, recOut, mlIn, mlOut, recStore, recClock,
                activeOut, uiVars>>

\* the worker starts the task: extract_drift_features(drift, context_data or {})
ExtStart ==
    /\ ext.job.state = "queued"
    /\ ext' = [ext EXCEPT !.job.state = "running", !.job.pc = "validate",
                          !.bundle = ContextOrEmpty(ext.context_data)]
    /\ ExtUnchanged

\* a validation that lets a drift without declared_state through
ExtValidateLenient ==
    /\ ext.job.state = "running" /\ ext.job.pc = "validate"
    /\ IF ext.drift.has_actual_state
       THEN ext' = [ext EXCEPT !.job.pc = IF ext.bundle = {} THEN "fetch" ELSE "build"]
       ELSE ext' = [ext EXCEPT !.job = OnException(ext.job, "ValidationError")]
    /\ ExtUnchanged

\* the extractor rejects a drift without actual_state or declared_state; a
\* request that brought no context has it fetched from the context sources
ExtValidate ==
    /\ ext.job.state = "running" /\ ext.job.pc = "validate"
    /\ IF WellFormed(ext.drift)
       THEN ext' = [ext EXCEPT !.job.pc = IF ext.bundle = {} THEN "fetch" ELSE "build"]
       ELSE ext' = [ext EXCEPT !.job = OnException(ext.job, "ValidationError")]
    /\ ExtUnchanged

\* the context sources answer with what they have (possibly nothing)
ExtFetchOk ==
    /\ ext.job.state = "running" /\ ext.job.pc = "fetch"
    /\ \E got \in SUBSET ContextCategories :
          ext' = [ext EXCEPT !.bundle = got, !.job.pc = "build"]
    /\ ExtUnchanged

\* a context source times out or is unavailable: back off and try again
ExtFetchFail ==
    /\ ext.job.state = "running" /\ ext.job.pc = "fetch"
    /\ ext.retries < ContextRetries
    /\ ext' = [ext EXCEPT !.retries = @ + 1]
    /\ ExtUnchanged

\* an extractor that gives up when the retries are used up
ExtDegradeRaises ==
    /\ ext.job.state = "running" /\ ext.job.pc = "fetch"
    /\ ext.retries = ContextRetries
    /\ ext' = [ext EXCEPT !.job = OnException(ext.job, "TransientContextError")]
    /\ ExtUnchanged

\* the last retry failed as well: go on with zero-valued context
ExtDegrade ==
    /\ ext.job.state = "running" /\ ext.job.pc = "fetch"
    /\ ext.retries = ContextRetries
    /\ ext' = [ext EXCEPT !.bundle = {}, !.degraded = TRUE, !.job.pc = "build"]
    /\ ExtUnchanged

\* the feature vector is built from the drift and the bundle
ExtBuild ==
    /\ ext.job.state = "running" /\ ext.job.pc = "build"
    /\ ext' = [ext EXCEPT !.features = << ContextualFeatures(ext.bundle) >>,
                          !.job.pc = "predict"]
    /\ ExtUnchanged

\* the rest of the task runs without a fault
ExtFinish ==
    /\ ext.job.state = "running" /\ ext.job.pc = "predict"
    /\ ext' = [ext EXCEPT !.job.state = "completed", !.job.pc = "done"]
    /\ ExtUnchanged

NextExtract ==
    \/ ExtStart
    \/ ExtValidate
    \/ ExtFetchOk
    \/ ExtFetchFail
    \/ ExtDegrade
    \/ ExtBuild
    \/ ExtFinish

SpecExtract == InitExtract /\ [][NextExtract]_vars

\* the worker keeps running the task, and every fetch attempt ends
FairSpecExtract == SpecExtract /\ WF_vars(NextExtract)

(* --------------- the recommendations table and its queries -------------- *)

\* the clock of this table moves in steps of one expiry period
TickHours == ExpiryHours

\* the batches that the table holds for a drift
BatchesOf(d) == { r.batch : r \in { x \in recStore : x.drift_event = d } }

\* the number of the newest batch of a drift (0 when it has none)
NewestBatch(d) ==
    IF BatchesOf(d) = {} THEN 0
    ELSE CHOOSE b \in BatchesOf(d) : \A c \in BatchesOf(d) : c <= b

\* the recommendations of one run, as the engine builds them for drift d
RunRecommendations(d) ==
    LET ca  == predict_drift_cause(modelOut[d].probabilities)
        sev == calculate_severity(modelOut[d].severity_scores)
    IN  generate_recommendations(
            [ id |-> d, production |-> production[d], severity_score |-> sev.overall ],
            [ cause_category |-> ca.cause_category,
              confidence_score |-> ca.confidence, severity |-> sev ])

\* the rows that one run on drift d writes: expires_at is 24 hours after
\* the recommendation was built, nothing is implemented yet
NewRows(d) ==
    LET recs == RunRecommendations(d) IN
    { [ id                    |-> Cardinality(recStore) + i,
        drift_event           |-> d,
        batch                 |-> NewestBatch(d) + 1,
        recommendation_type   |-> recs[i].recommendation_type,
        priority              |-> recs[i].priority,
        confidence_score      |-> predict_drift_cause(modelOut[d].probabilities).confidence,
        created_at            |-> recClock,
        expires_at            |-> recClock + ExpiryHours,
        implemented_at        |-> << >>,
        implementation_result |-> << >> ] : i \in 1..Len(recs) }

InitRecs ==
    /\ resolved = [d \in Drifts |-> FALSE]
    /\ production \in [Drifts -> BOOLEAN]
    /\ \E o \in PipelineOutputs : modelOut = [d \in Drifts |-> o]
    /\ jobs = << >>
    /\ analyses = {}
    /\ recommendations = {}
    /\ driftScore = [d \in Drifts |-> NoScore]
    /\ featureCalls = [d \in Drifts |-> 0]
    /\ now = 0
    /\ recIn = NoInput
    /\ recOut = << >>
    /\ SideIdle

RecsUnchanged == UNCHANGED <<pipelineVars, recIn, recOut, mlIn, mlOut, ext, uiVars>>

\* a run that deletes the earlier recommendations of its drift
SaveBatchReplacing(d) ==
    /\ Cardinality(UNION { BatchesOf(x) \X {x} : x \in Drifts }) < MaxBatches
    /\ recStore' = { r \in recStore : r.drift_event # d } \cup NewRows(d)
    /\ UNCHANGED <<recClock, activeOut>>
    /\ RecsUnchanged

\* a run on drift d saves its recommendations: for rec in recommendations:
\* rec.save(); earlier rows are left as they are
SaveBatch(d) ==
    /\ Cardinality(UNION { BatchesOf(x) \X {x} : x \in Drifts }) < MaxBatches
    /\ recStore' = recStore \cup NewRows(d)
    /\ UNCHANGED <<recClock, activeOut>>
    /\ RecsUnchanged

\* a handler that also renews the expiry of the recommendation
MarkImplementedRenewing(id, result) ==
    { IF r.id = id
      THEN [r EXCEPT !.implemented_at = << recClock >>,
                     !.implementation_result = << result >>,
                     !.expires_at = recClock + ExpiryHours]
      ELSE r : r \in recStore }

\* PUT /recommendations/{id}/implement: the table after the outcome of the
\* recommendation has been recorded
MarkImplemented(id, result) ==
    { IF r.id = id
      THEN [r EXCEPT !.implemented_at = << recClock >>,
                     !.implementation_result = << result >>]
      ELSE r : r \in recStore }

\* handleImplementRecommendation: implementRecommendation(id, result)
ImplementRecommendation(id, result) ==
    /\ \E r \in recStore : r.id = id
    /\ recStore' = MarkImplemented(id, result)
    /\ UNCHANGED <<recClock, activeOut>>
    /\ RecsUnchanged

Expired(r) == r.expires_at <= recClock

\* the drift's recommendations, as the list endpoint filtered by
\* drift_event_id returns them
GetAllRecommendations(d) == { r \in recStore : r.drift_event = d }

\* the recommendations of the newest batch of the drift, without those that
\* have expired and were not implemented
GetActiveRecommendations(d) ==
    { r \in recStore : /\ r.drift_event = d
                        /\ r.batch = NewestBatch(d)
                        /\ ~(Expired(r) /\ r.implemented_at = << >>) }

\* a caller asks for the active recommendations of drift d
QueryActive(d) ==
    /\ activeOut' = { [ drift_id |-> d,
                         ids |-> { r.id : r \in GetActiveRecommendations(d) } ] }
    /\ activeOut' # activeOut
    /\ UNCHANGED <<recStore, recClock>>
    /\ RecsUnchanged

RecTick ==
    /\ recClock + TickHours <= MaxRecClock
    /\ recClock' = recClock + TickHours
    /\ UNCHANGED <<recStore, activeOut>>
    /\ RecsUnchanged

NextRecs ==
    \/ \E d \in Drifts : SaveBatch(d)
    \/ \E id \in 1..Cardinality(recStore), result \in {"success", "failure"} :
          ImplementRecommendation(id, result)
    \/ \E d \in Drifts : QueryActive(d)
    \/ RecTick

SpecRecs == InitRecs /\ [][NextRecs]_vars

(* ------------- the Drifts page and the Dashboard: row actions ------------ *)

\* every variable but page has its idle value
InitOthersForPage ==
    /\ PipelineIdle
    /\ mlIn = << >> /\ mlOut = << >> /\ ext = << >>
    /\ recStore = {} /\ recClock = 0 /\ activeOut = {}
    /\ wiz = << >> /\ auth = << >> /\ chat = << >>

PageUnchanged ==
    UNCHANGED <<pipelineVars, recIn, recOut, mlIn, mlOut, ext, recStore, recClock,
                activeOut, wiz, auth, chat>>

\* what GET /drifts/ returns of the drifts: is_resolved and cause_analysis
ListOf(server) ==
    [ d \in Drifts |-> [ is_resolved    |-> server[d].is_resolved,
                         cause_analysis |-> server[d].cause_analysis ] ]

\* the page is mounted and its first getDrifts has been shown
InitPage ==
    /\ InitOthersForPage
    /\ \E kind \in {"Drifts", "Dashboard"},
          server \in [ Drifts -> [ is_resolved : BOOLEAN, cause_analysis : BOOLEAN,
                                    pending : {FALSE} ] ] :
          page = [ kind      |-> kind,
                   server    |-> server,
                   shown     |-> ListOf(server),
                   loading   |-> FALSE,
                   calls     |-> << >>,
                   issued    |-> 0,
                   delivered |-> 0,
                   latest    |-> ListOf(server) ]

\* a call of handleAnalyzeDrift or handleResolveDrift: its first request is sent
NewCall(kind, d) ==
    [ kind |-> kind, drift |-> d, pc |-> "post", order |-> 0, data |-> << >> ]

\* a row that offers Analyze whatever the list says of its analysis
ClickAnalyzeAlways(d) ==
    /\ Len(page.calls) < MaxCalls
    /\ ~page.loading
    /\ ~page.shown[d].is_resolved
    /\ page' = [page EXCEPT !.calls = Append(@, NewCall("analyze", d))]
    /\ PageUnchanged

\* {!drift.cause_analysis && !drift.is_resolved && (<IconButton onClick={() =>
\* handleAnalyzeDrift(drift.id)}>)}: driftsService.analyzeDrift is called
ClickAnalyze(d) ==
    /\ Len(page.calls) < MaxCalls
    /\ ~page.loading
    /\ ~page.shown[d].cause_analysis
    /\ ~page.shown[d].is_resolved
    /\ page' = [page EXCEPT !.calls = Append(@, NewCall("analyze", d))]
    /\ PageUnchanged

\* {!drift.is_resolved && (<Button onClick={() => handleResolveDrift(drift.id)}>)}
ClickResolve(d) ==
    /\ Len(page.calls) < MaxCalls
    /\ ~page.loading
    /\ ~page.shown[d].is_resolved
    /\ page' = [page EXCEPT !.calls = Append(@, NewCall("resolve", d))]
    /\ PageUnchanged

\* the server after the POST of call c: resolve sets resolved_at, analyze
\* queues a task
Served(server, c) ==
    IF c.kind = "resolve"
    THEN [server EXCEPT ![c.drift].is_resolved = TRUE]
    ELSE [server EXCEPT ![c.drift].pending = TRUE]

\* the POST of call i is answered; the handler goes on to getDrifts (the
\* Dashboard's loadDashboardData sets loading first)
PostReturns(i) ==
    /\ page.calls[i].pc = "post"
    /\ page' = [page EXCEPT !.server = Served(page.server, page.calls[i]),
                            !.calls[i].pc = "get",
                            !.calls[i].order = page.issued + 1,
                            !.issued = @ + 1,
                            !.loading = IF page.kind = "Dashboard" THEN TRUE ELSE @]
    /\ PageUnchanged

\* the POST of call i fails: catch, console.error, nothing else
PostFails(i) ==
    /\ page.calls[i].pc = "post"
    /\ page' = [page EXCEPT !.calls[i].pc = "failed"]
    /\ PageUnchanged

\* the server answers the getDrifts of call i with the list as it is now
ServeGet(i) ==
    /\ page.calls[i].pc = "get"
    /\ page' = [page EXCEPT !.calls[i].pc = "reply",
                            !.calls[i].data = ListOf(page.server)]
    /\ PageUnchanged

\* the answer of the getDrifts of call i arrives: setDrifts(updatedDrifts)
\* (Dashboard: setStats, then setLoading(false))
GetReturns(i) ==
    /\ page.calls[i].pc = "reply"
    /\ page' = [page EXCEPT !.shown = page.calls[i].data,
                            !.calls[i].pc = "done",
                            !.calls[i].data = << >>,
                            !.loading = FALSE,
                            !.delivered = IF page.calls[i].order > @
                                          THEN page.calls[i].order ELSE @,
                            !.latest = IF page.calls[i].order > page.delivered
                                       THEN page.calls[i].data ELSE @]
    /\ PageUnchanged

\* the getDrifts of call i fails (Dashboard: setError, setLoading(false))
GetFails(i) ==
    /\ page.calls[i].pc \in {"get", "reply"}
    /\ page' = [page EXCEPT !.calls[i].pc = "failed", !.calls[i].data = << >>,
                            !.loading = FALSE]
    /\ PageUnchanged

\* the task that an analyze request queued has stored its cause analysis
AnalysisDone(d) ==
    /\ page.server[d].pending
    /\ page' = [page EXCEPT !.server[d].pending = FALSE,
                            !.server[d].cause_analysis = TRUE]
    /\ PageUnchanged

NextPage ==
    \/ \E d \in Drifts : ClickAnalyze(d)
    \/ \E d \in Drifts : ClickResolve(d)
    \/ \E i \in 1..Len(page.calls) : PostReturns(i)
    \/ \E i \in 1..Len(page.calls) : PostFails(i)
    \/ \E i \in 1..Len(page.calls) : ServeGet(i)
    \/ \E i \in 1..Len(page.calls) : GetReturns(i)
    \/ \E i \in 1..Len(page.calls) : GetFails(i)
    \/ \E d \in Drifts : AnalysisDone(d)

SpecPage == InitPage /\ [][NextPage]_vars

(* ===================== Create Environment wizard ====================== *)
(* The Environments component of part_003: its dialog, the four steps of   *)
(* the stepper, the form, the visibility detection of the GitHub           *)
(* repository and the handleFinish calls. Text fields are kept as "is      *)
(* non-empty" flags, the GitHub URL as empty / matching the github.com     *)
(* pattern / other text.                                                   *)

LastStep == 3

UrlTexts == {"empty", "github", "other"}

FetchAnswers == {"404", "denied", "ok", "unhandled", "throws"}

FinishIds == 1..MaxFinish

IdleCall == [pc |-> "idle", url |-> FALSE]

\* resetForm: what it assigns
EmptyForm ==
    [ name |-> FALSE, region |-> FALSE, account_id |-> FALSE,
      github_url |-> "empty", repository_owner |-> FALSE,
      github_token |-> FALSE, credName |-> FALSE,
      repoDetectionStatus |-> "idle", isPrivateRepo |-> "null" ]

FormFields == DOMAIN EmptyForm

resetForm(w) == [ f \in DOMAIN w |-> IF f \in FormFields THEN EmptyForm[f] ELSE w[f] ]

InitOthersForWizard ==
    /\ PipelineIdle
    /\ mlIn = << >> /\ mlOut = << >> /\ ext = << >>
    /\ recStore = {} /\ recClock = 0 /\ activeOut = {}
    /\ page = << >> /\ auth = << >> /\ chat = << >>

WizardUnchanged ==
    UNCHANGED <<pipelineVars, recIn, recOut, mlIn, mlOut, ext, recStore, recClock,
                activeOut, page, auth, chat>>

\* the component is mounted: the loadData of its effect is running
InitWizard ==
    /\ InitOthersForWizard
    /\ wiz = [ createDialogOpen |-> FALSE, activeStep |-> 0,
               loading |-> TRUE, error |-> "", mountLoad |-> TRUE,
               detections |-> 0,
               finish |-> [i \in FinishIds |-> IdleCall] ] @@ EmptyForm

validateStep(w, step) ==
    CASE step = 0 -> w.name /\ w.region /\ w.account_id
      [] step = 1 -> IF w.github_url = "empty" THEN TRUE
                     ELSE /\ w.repository_owner
                          /\ (w.isPrivateRepo /= "yes" \/ w.github_token)
      [] step = 2 -> w.credName
      [] OTHER    -> TRUE

\* the "Add Environment" button
OpenDialog ==
    /\ ~wiz.createDialogOpen
    /\ wiz' = [wiz EXCEPT !.createDialogOpen = TRUE]
    /\ WizardUnchanged

\* the dialog's onClose (backdrop, Escape)
CloseDialog ==
    /\ wiz.createDialogOpen
    /\ wiz' = [wiz EXCEPT !.createDialogOpen = FALSE]
    /\ WizardUnchanged

Cancel ==
    /\ wiz.createDialogOpen
    /\ wiz' = [resetForm(wiz) EXCEPT !.createDialogOpen = FALSE, !.activeStep = 0]
    /\ WizardUnchanged

\* typing in a text field of the Environment step
SetEnvData(f, b) ==
    /\ wiz.createDialogOpen /\ wiz.activeStep = 0
    /\ wiz[f] /= b
    /\ wiz' = [wiz EXCEPT ![f] = b]
    /\ WizardUnchanged

\* typing in the GitHub URL field: up to the await of the fetch
handleGithubUrlChange(url) ==
    /\ wiz.createDialogOpen /\ wiz.activeStep = 1
    /\ wiz.github_url /= url
    /\ IF url = "github"
       THEN /\ wiz.detections < MaxDetect
            /\ wiz' = [wiz EXCEPT !.github_url = url,
                                  !.repository_owner = TRUE,
                                  !.repoDetectionStatus = "detecting",
                                  !.detections = @ + 1]
       ELSE wiz' = [wiz EXCEPT !.github_url = url]
    /\ WizardUnchanged

\* the fetch of a detection answers: the rest of handleGithubUrlChange
DetectionAnswers(r) ==
    /\ wiz.detections > 0
    /\ wiz' = [wiz EXCEPT
         !.detections = @ - 1,
         !.isPrivateRepo = CASE r \in {"404", "throws"} -> "null"
                             [] r = "denied" -> "yes"
                             [] r = "ok" -> "no"
                             [] OTHER -> @,
         !.repoDetectionStatus = CASE r \in {"404", "throws"} -> "error"
                                   [] r \in {"denied", "ok"} -> "detected"
                                   [] OTHER -> @ ]
    /\ WizardUnchanged

\* typing in the token field, shown for a parsed private repository
SetGithubToken(b) ==
    /\ wiz.createDialogOpen /\ wiz.activeStep = 1
    /\ wiz.repository_owner /\ wiz.isPrivateRepo = "yes"
    /\ wiz.github_token /= b
    /\ wiz' = [wiz EXCEPT !.github_token = b]
    /\ WizardUnchanged

\* typing in the credential name field
SetCredName(b) ==
    /\ wiz.createDialogOpen /\ wiz.activeStep = 2
    /\ wiz.credName /= b
    /\ wiz' = [wiz EXCEPT !.credName = b]
    /\ WizardUnchanged

handleNextUnchecked ==
    /\ wiz.createDialogOpen /\ wiz.activeStep < LastStep
    /\ wiz' = [wiz EXCEPT !.activeStep = @ + 1]
    /\ WizardUnchanged

\* the Next button (disabled unless validateStep) and handleNext
handleNext ==
    /\ wiz.createDialogOpen /\ wiz.activeStep < LastStep
    /\ validateStep(wiz, wiz.activeStep)
    /\ wiz' = [wiz EXCEPT !.activeStep = @ + 1]
    /\ WizardUnchanged

\* the Back button (shown from step 1 on) and handleBack
handleBack ==
    /\ wiz.createDialogOpen /\ wiz.activeStep > 0
    /\ wiz' = [wiz EXCEPT !.activeStep = @ - 1]
    /\ WizardUnchanged

\* the Create Environment button (disabled while loading) and handleFinish
\* up to the await of createEnvironment
handleFinish(i) ==
    /\ wiz.createDialogOpen /\ wiz.activeStep = LastStep
    /\ ~wiz.loading
    /\ wiz.finish[i].pc = "idle"
    /\ \A k \in FinishIds : k < i => wiz.finish[k].pc /= "idle"
    /\ wiz' = [wiz EXCEPT !.error = "",
                          !.finish[i] = [pc  |-> "create",
                                         url |-> wiz.github_url /= "empty"]]
    /\ WizardUnchanged

\* createEnvironment answers
CreateReturns(i) ==
    /\ wiz.finish[i].pc = "create"
    /\ wiz' = [wiz EXCEPT !.finish[i].pc = IF wiz.finish[i].url THEN "repo" ELSE "cred"]
    /\ WizardUnchanged

\* createEnvironment throws: the outer catch
CreateFails(i) ==
    /\ wiz.finish[i].pc = "create"
    /\ wiz' = [wiz EXCEPT !.finish[i] = IdleCall,
                          !.error = "Failed to create environment"]
    /\ WizardUnchanged

\* createIaCRepository answers or throws (caught, console.warn)
RepoReturns(i, ok) ==
    /\ wiz.finish[i].pc = "repo"
    /\ wiz' = [wiz EXCEPT !.finish[i].pc = "cred"]
    /\ WizardUnchanged

CredReturnsOrAborts(i, ok) ==
    /\ wiz.finish[i].pc = "cred"
    /\ wiz' = IF ok
              THEN [resetForm(wiz) EXCEPT !.createDialogOpen = FALSE,
                                          !.activeStep = 0,
                                          !.loading = TRUE,
                                          !.finish[i].pc = "load"]
              ELSE [wiz EXCEPT !.finish[i] = IdleCall,
                               !.error = "Failed to create environment"]
    /\ WizardUnchanged

\* setEnvironmentCredentials answers or throws (caught, console.warn); then
\* the dialog is closed, the form reset and loadData started
CredReturns(i, ok) ==
    /\ wiz.finish[i].pc = "cred"
    /\ wiz' = [resetForm(wiz) EXCEPT !.createDialogOpen = FALSE,
                                     !.activeStep = 0,
                                     !.loading = TRUE,
                                     !.finish[i].pc = "load"]
    /\ WizardUnchanged

\* the loadData of a handleFinish call answers or throws
LoadReturns(i, ok) ==
    /\ wiz.finish[i].pc = "load"
    /\ wiz' = [wiz EXCEPT !.finish[i] = IdleCall,
                          !.loading = FALSE,
                          !.error = IF ok THEN @ ELSE "Failed to load data"]
    /\ WizardUnchanged

\* the loadData of the mount effect answers or throws
MountLoadReturns(ok) ==
    /\ wiz.mountLoad
    /\ wiz' = [wiz EXCEPT !.mountLoad = FALSE,
                          !.loading = FALSE,
                          !.error = IF ok THEN @ ELSE "Failed to load data"]
    /\ WizardUnchanged

NextWizard ==
    \/ OpenDialog
    \/ CloseDialog
    \/ Cancel
    \/ \E f \in {"name", "region", "account_id"}, b \in BOOLEAN : SetEnvData(f, b)
    \/ \E url \in UrlTexts : handleGithubUrlChange(url)
    \/ \E r \in FetchAnswers : DetectionAnswers(r)
    \/ \E b \in BOOLEAN : SetGithubToken(b)
    \/ \E b \in BOOLEAN : SetCredName(b)
    \/ handleNext
    \/ handleBack
    \/ \E i \in FinishIds : handleFinish(i)
    \/ \E i \in FinishIds : CreateReturns(i)
    \/ \E i \in FinishIds : CreateFails(i)
    \/ \E i \in FinishIds, ok \in BOOLEAN : RepoReturns(i, ok)
    \/ \E i \in FinishIds, ok \in BOOLEAN : CredReturns(i, ok)
    \/ \E i \in FinishIds, ok \in BOOLEAN : LoadReturns(i, ok)
    \/ \E ok \in BOOLEAN : MountLoadReturns(ok)

SpecWizard == InitWizard /\ [][NextWizard]_vars

(* ========================= authentication ============================= *)
(* authService over localStorage, the Login page, the Layout's logout and  *)
(* PrivateRoute around every protected route of the App's route table.     *)
(* localStorage.getItem answers null for a missing key: "null" here.       *)

Tokens == {"jwt1", "jwt2"}

PublicRoutes == {"/login", "/register"}

ProtectedRoutes == {"/dashboard", "/drifts"}

AppRoutes == PublicRoutes \cup ProtectedRoutes

RequestIds == 1..MaxRequests

NoRequest == [kind |-> "idle", live |-> FALSE]

NoGuard == [mounted |-> FALSE, checkingAuth |-> FALSE, isAuthenticated |-> FALSE]

\* the useState values of a PrivateRoute that has just been mounted
FreshGuard == [mounted |-> TRUE, checkingAuth |-> TRUE, isAuthenticated |-> FALSE]

EmptyStorage == [access_token |-> "null", refresh_token |-> "null"]

isAuthenticated(storage) == storage.access_token \notin {"null", ""}

logoutAccessOnly(storage) == [storage EXCEPT !.access_token = "null"]

logout(storage) == EmptyStorage

InitOthersForAuth ==
    /\ PipelineIdle
    /\ mlIn = << >> /\ mlOut = << >> /\ ext = << >>
    /\ recStore = {} /\ recClock = 0 /\ activeOut = {}
    /\ page = << >> /\ wiz = << >> /\ chat = << >>

AuthUnchanged ==
    UNCHANGED <<pipelineVars, recIn, recOut, mlIn, mlOut, ext, recStore, recClock,
                activeOut, page, wiz, chat>>

\* what the App shows for a route right after the page was loaded
Loaded(storage, r) ==
    [ route    |-> r,
      storage  |-> storage,
      guard    |-> IF r \in ProtectedRoutes THEN FreshGuard ELSE NoGuard,
      loading  |-> FALSE,
      requests |-> [i \in RequestIds |-> NoRequest],
      op       |-> "" ]

\* the browser opens the application with nothing stored
InitAuth ==
    /\ InitOthersForAuth
    /\ \E r \in AppRoutes : auth = Loaded(EmptyStorage, r)

\* what is on screen
Screen(a) ==
    CASE a.route = "/login"    -> "login"
      [] a.route = "/register" -> "register"
      [] a.guard.checkingAuth  -> "spinner"
      [] ~a.guard.isAuthenticated -> "redirect"
      [] OTHER -> "children"

\* the router shows route r: a PrivateRoute already on screen keeps its
\* state, the pages left are unmounted
navigate(a, r) ==
    [a EXCEPT
       !.route = r,
       !.guard = IF r \in ProtectedRoutes
                 THEN IF a.route \in ProtectedRoutes THEN a.guard ELSE FreshGuard
                 ELSE NoGuard,
       !.loading = IF r = "/login" /\ a.route = "/login" THEN @ ELSE FALSE,
       !.requests = [i \in RequestIds |->
                        IF r = a.route THEN @[i] ELSE [@[i] EXCEPT !.live = FALSE]]]

FirstIdle(i) ==
    /\ auth.requests[i].kind = "idle"
    /\ \A k \in RequestIds : k < i => auth.requests[k].kind /= "idle"

\* a link, a menu item of the Layout or the browser history
Goto(r) ==
    /\ r /= auth.route
    /\ Screen(auth) = "children" \/ r \notin ProtectedRoutes
         \/ auth.route \notin ProtectedRoutes
    /\ auth' = [navigate(auth, r) EXCEPT !.op = ""]
    /\ AuthUnchanged

\* the address bar or a reload: the page and its pending requests are gone
Reload(r) ==
    /\ auth' = Loaded(auth.storage, r)
    /\ auth' /= auth
    /\ AuthUnchanged

\* the effect of PrivateRoute
checkAuth ==
    /\ auth.guard.mounted /\ auth.guard.checkingAuth
    /\ auth' = [auth EXCEPT
         !.guard = [mounted |-> TRUE, checkingAuth |-> FALSE,
                    isAuthenticated |-> isAuthenticated(auth.storage)],
         !.op = ""]
    /\ AuthUnchanged

\* <Navigate to="/login" replace />
Redirect ==
    /\ Screen(auth) = "redirect"
    /\ auth' = [navigate(auth, "/login") EXCEPT !.op = ""]
    /\ AuthUnchanged

handleLogoutStays ==
    /\ Screen(auth) = "children"
    /\ auth' = [auth EXCEPT !.storage = logout(@), !.op = "logout"]
    /\ AuthUnchanged

\* the logout buttons of the Layout
handleLogout ==
    /\ Screen(auth) = "children"
    /\ auth' = [navigate([auth EXCEPT !.storage = logout(@)], "/login")
                  EXCEPT !.op = "logout"]
    /\ AuthUnchanged

\* the Sign In button (disabled while loading): onSubmit up to the await
SubmitLogin(i) ==
    /\ auth.route = "/login" /\ ~auth.loading
    /\ FirstIdle(i)
    /\ auth' = [auth EXCEPT !.loading = TRUE,
                            !.requests[i] = [kind |-> "login", live |-> TRUE],
                            !.op = ""]
    /\ AuthUnchanged

\* POST /auth/login/ answers: the tokens are stored, onSubmit navigates
LoginReturns(i, access, refresh) ==
    /\ auth.requests[i].kind = "login"
    /\ auth' = [navigate([auth EXCEPT
                            !.storage = [access_token |-> access,
                                         refresh_token |-> refresh],
                            !.requests[i] = NoRequest], "/dashboard")
                  EXCEPT !.op = "login"]
    /\ AuthUnchanged

\* POST /auth/login/ fails: onSubmit shows the error
LoginFails(i) ==
    /\ auth.requests[i].kind = "login"
    /\ auth' = [auth EXCEPT
         !.requests[i] = NoRequest,
         !.loading = IF auth.requests[i].live THEN FALSE ELSE @,
         !.op = "login failed"]
    /\ AuthUnchanged

\* authService.register up to the await
SubmitRegister(i) ==
    /\ auth.route = "/register"
    /\ FirstIdle(i)
    /\ auth' = [auth EXCEPT !.requests[i] = [kind |-> "register", live |-> TRUE],
                            !.op = ""]
    /\ AuthUnchanged

\* POST /auth/register/ answers: the tokens are stored; the caller may
\* navigate to the dashboard
RegisterReturns(i, access, refresh, goes) ==
    /\ auth.requests[i].kind = "register"
    /\ LET stored == [auth EXCEPT
                        !.storage = [access_token |-> access,
                                     refresh_token |-> refresh],
                        !.requests[i] = NoRequest] IN
       auth' = [(IF goes THEN navigate(stored, "/dashboard") ELSE stored)
                   EXCEPT !.op = "register"]
    /\ AuthUnchanged

RegisterFails(i) ==
    /\ auth.requests[i].kind = "register"
    /\ auth' = [auth EXCEPT !.requests[i] = NoRequest, !.op = "register failed"]
    /\ AuthUnchanged

NextAuth ==
    \/ \E r \in AppRoutes : Goto(r)
    \/ \E r \in AppRoutes : Reload(r)
    \/ checkAuth
    \/ Redirect
    \/ handleLogout
    \/ \E i \in RequestIds : SubmitLogin(i)
    \/ \E i \in RequestIds, access, refresh \in Tokens : LoginReturns(i, access, refresh)
    \/ \E i \in RequestIds : LoginFails(i)
    \/ \E i \in RequestIds : SubmitRegister(i)
    \/ \E i \in RequestIds, access, refresh \in Tokens, goes \in BOOLEAN :
          RegisterReturns(i, access, refresh, goes)
    \/ \E i \in RequestIds : RegisterFails(i)

SpecAuth == InitAuth /\ [][NextAuth]_vars

(* ============================== AiChat ================================ *)
(* The chat component: its messages by role and kind, the input as empty,  *)
(* blank (white space only) or text, and the replies whose typing delay    *)
(* is running.                                                             *)

InputTexts == {"", "blank", "text"}

\* input.trim() is non-empty
NonBlank(input) == input = "text"

InitOthersForChat ==
    /\ PipelineIdle
    /\ mlIn = << >> /\ mlOut = << >> /\ ext = << >>
    /\ recStore = {} /\ recClock = 0 /\ activeOut = {}
    /\ page = << >> /\ wiz = << >> /\ auth = << >>

ChatUnchanged ==
    UNCHANGED <<pipelineVars, recIn, recOut, mlIn, mlOut, ext, recStore, recClock,
                activeOut, page, wiz, auth>>

\* initializeDriftChat: the messages it sets
initializeDriftChat == << "greeting" >>

\* the component is mounted, with or without a drift, and its effects ran
InitChat ==
    /\ InitOthersForChat
    /\ \E drift \in BOOLEAN :
         chat = [ drift    |-> drift,
                  open     |-> drift,
                  messages |-> IF drift THEN initializeDriftChat ELSE << >>,
                  input    |-> "",
                  loading  |-> FALSE,
                  pending  |-> 0 ]

\* the chat content is on screen: in the dialog when there is a drift
ChatVisible == chat.drift => chat.open

\* typing in the text field (disabled while loading)
SetInput(v) ==
    /\ ChatVisible /\ ~chat.loading
    /\ v /= chat.input
    /\ chat' = [chat EXCEPT !.input = v]
    /\ ChatUnchanged

\* a chip of the suggested questions
PickSuggestion ==
    /\ ChatVisible /\ ~chat.loading
    /\ Len(chat.messages) = 1
    /\ chat.input /= "text"
    /\ chat' = [chat EXCEPT !.input = "text"]
    /\ ChatUnchanged

handleSendMessageUnguarded ==
    /\ ChatVisible
    /\ Len(chat.messages) + 2 <= MaxMessages
    /\ chat' = [chat EXCEPT !.messages = Append(@, "user"),
                            !.input = "",
                            !.loading = TRUE,
                            !.pending = @ + 1]
    /\ ChatUnchanged

\* the Send button and Enter: handleSendMessage up to the await
handleSendMessage ==
    /\ ChatVisible
    /\ NonBlank(chat.input) /\ ~chat.loading
    /\ Len(chat.messages) + 2 <= MaxMessages
    /\ chat' = [chat EXCEPT !.messages = Append(@, "user"),
                            !.input = "",
                            !.loading = TRUE,
                            !.pending = @ + 1]
    /\ ChatUnchanged

\* the typing delay is over: the answer is appended, or the error text
\* when the try block threw; finally loading is cleared
Reply(ok) ==
    /\ chat.pending > 0
    /\ chat' = [chat EXCEPT
         !.messages = Append(@, IF ok THEN "answer" ELSE "error"),
         !.loading = FALSE,
         !.pending = @ - 1]
    /\ ChatUnchanged

\* the dialog's close button and onClose
handleClose ==
    /\ chat.drift /\ chat.open
    /\ chat' = [chat EXCEPT !.open = FALSE]
    /\ ChatUnchanged

\* the parent passes another drift, or none: the effect on [drift]
DriftChanges(drift) ==
    /\ chat' = IF drift
               THEN [chat EXCEPT !.drift = TRUE, !.open = TRUE,
                                 !.messages = initializeDriftChat]
               ELSE [chat EXCEPT !.drift = FALSE]
    /\ chat' /= chat
    /\ ChatUnchanged

NextChat ==
    \/ \E v \in InputTexts : SetInput(v)
    \/ PickSuggestion
    \/ handleSendMessage
    \/ \E ok \in BOOLEAN : Reply(ok)
    \/ handleClose
    \/ \E drift \in BOOLEAN : DriftChanges(drift)

SpecChat == InitChat /\ [][NextChat]_vars

\* the timer of the typing delay always fires
FairSpecChat == SpecChat /\ WF_vars(\E ok \in BOOLEAN : Reply(ok))

(* ================================ claims =============================== *)

ActiveJobs(d) == { j \in JobIds : jobs[j].drift = d /\ NonTerminal(j) }

\* C1: at any instant at most one job of a drift_id is queued or running
\* (a second request meanwhile starts no second execution).
C1_AtMostOneNonTerminalJob ==
    \A d \in Drifts : Cardinality(ActiveJobs(d)) <= 1

JobTransitions ==
    { <<"queued", "running">>, <<"running", "completed">>, <<"running", "failed">> }

\* C2: a job starts queued and moves only queued -> running -> completed or
\* running -> failed; a failed job carries its error, and neither a failed
\* nor a completed job ever changes again (nothing re-runs it).
C2_JobStateMachine ==
    [][ /\ Len(jobs') >= Len(jobs)
        /\ \A j \in 1..Len(jobs') :
              IF j \in JobIds
              THEN /\ \/ jobs'[j].state = jobs[j].state
                      \/ <<jobs[j].state, jobs'[j].state>> \in JobTransitions
                   /\ jobs[j].state \in {"completed", "failed"} => jobs'[j] = jobs[j]
                   /\ jobs'[j].state = "failed" => jobs'[j].error # Null
              ELSE jobs'[j].state = "queued" ]_vars

C2_Witness ==
    \E j, k \in JobIds :
        /\ jobs[j].state = "failed" /\ jobs[j].error # Null
        /\ jobs[k].state = "completed"

\* C3: every stored CauseAnalysis whose confidence is below the floor has
\* cause_category unknown, and every recommendation of its run is manual_review.
C3_BelowFloorIsUnknown ==
    \A a \in analyses :
        a.confidence_score < ConfidenceFloor =>
            /\ a.cause_category = "unknown"
            /\ \A r \in BatchOf(a.job) : r.recommendation_type = "manual_review"

Called == recOut # << >>

Rule1 == /\ recIn.ml_analysis.confidence_score >= 80
         /\ recIn.ml_analysis.cause_category = "configuration_error"

Rule2 == /\ recIn.ml_analysis.confidence_score >= 80
         /\ recIn.ml_analysis.cause_category = "emergency_fix"

Rule3 == \/ /\ recIn.ml_analysis.confidence_score >= 80
            /\ recIn.ml_analysis.cause_category = "security_response"
         \/ /\ recIn.ml_analysis.severity.security > 70
            /\ recIn.drift_event.production

\* C4: whenever rule 3 applies (security_response at >= 0.8, or security
\* severity > 0.7 in production) the result holds exactly one escalate_review,
\* and its priority is critical, whether or not rule 1 or 2 fired.
C4_EscalateExactlyOnce ==
    (Called /\ Rule3) =>
        /\ CountType(recOut, "escalate_review") = 1
        /\ \A i \in 1..Len(recOut) :
              recOut[i].recommendation_type = "escalate_review"
                  => recOut[i].priority = "critical"

RequestsWhileUnresolved(d) ==
    { j \in JobIds : jobs[j].drift = d /\ ~jobs[j].submitted_resolved }

\* C8: a request for a resolved DriftEvent never reaches the feature
\* extractor: the extractor has run at most once per request that was made
\* while the event was unresolved.
C8_ResolvedNeverExtracts ==
    \A d \in Drifts : featureCalls[d] <= Cardinality(RequestsWhileUnresolved(d))

FreshResult(d) ==
    \E j \in JobIds :
        /\ jobs[j].drift = d
        /\ jobs[j].state = "completed"
        /\ jobs[j].finished_at + CacheHours > now

C10_NoPartialWrites ==
    \A j \in JobIds :
        jobs[j].state = "failed" => (AnalysesOf(j) = {} /\ BatchOf(j) = {})

\* C13: in every completed analysis the confidence and the five severity
\* values lie in [0, 1], also when a model outputs a value outside that range.
\* (An analysis completes only if the database accepted the confidence and
\* the overall score it wrote.)
C13_CompletedScoresInUnitRange ==
    /\ (mlOut # << >> /\ mlIn.kind = "classify" /\ ScoreCheck(mlOut[1].confidence))
            => mlOut[1].confidence \in 0..100
    /\ (mlOut # << >> /\ mlIn.kind = "score" /\ ScoreCheck(mlOut[1].overall))
            => /\ mlOut[1].security \in 0..100
               /\ mlOut[1].performance \in 0..100
               /\ mlOut[1].cost \in 0..100
               /\ mlOut[1].compliance \in 0..100
               /\ mlOut[1].overall \in 0..100

\* C14: the overall score that calculate_severity returns is the largest of
\* the security, performance, cost and compliance values it returns.
C14_OverallIsMaximum ==
    (mlOut # << >> /\ mlIn.kind = "score") =>
        LET r == mlOut[1]
            dims == {r.security, r.performance, r.cost, r.compliance}
        IN  /\ r.overall \in dims
            /\ \A x \in dims : r.overall >= x

\* one critical dimension among three benign ones: the mean would be 0.25
C14_Witness ==
    /\ mlOut # << >> /\ mlIn.kind = "score"
    /\ mlIn.values = <<100, 0, 0, 0>>
    /\ mlOut[1].overall = 100

\* the static order of the tie-break
PrecisionOrder ==
    << "configuration_error", "manual_troubleshooting", "automated_response",
       "emergency_fix", "security_response" >>

\* the categories whose probability is within 0.01 of the largest one
NearTop(probabilities) ==
    { Classes[i] : i \in { k \in 1..Len(Classes) :
                              probabilities[k] >= SeqMax(probabilities) - 1 } }

\* C15: the category returned is, among the categories within 0.01 of the
\* largest probability, the first one in the order configuration_error,
\* manual_troubleshooting, automated_response, emergency_fix, security_response.
C15_TieBreakByPrecisionOrder ==
    (mlOut # << >> /\ mlIn.kind = "classify") =>
        LET near == NearTop(mlOut[1].probabilities)
            first == CHOOSE i \in 1..5 :
                        /\ PrecisionOrder[i] \in near
                        /\ \A k \in 1..(i - 1) : PrecisionOrder[k] \notin near
        IN  mlOut[1].cause_category = PrecisionOrder[first]

\* C16: storage holds at most one cause analysis per drift event, however
\* many times the drift has been analysed.
C16_AtMostOneCauseAnalysis ==
    \A d \in Drifts : Cardinality({ a \in analyses : a.drift_event = d }) <= 1

\* a step that the task j itself takes, other than raising
TaskStep(j) ==
    \/ StartTask(j)
    \/ ExtractFeatures(j)
    \/ Predict(j)
    \/ SaveCauseAnalysis(j)
    \/ SaveDrift(j)
    \/ Generate(j)
    \/ SaveRec(j)
    \/ Finish(j)

\* what a completed run j must have stored, computed from its drift alone
StoredAsComputed(j) ==
    LET d    == jobs[j].drift
        ca   == predict_drift_cause(modelOut[d].probabilities)
        recs == generate_recommendations(DriftEventOf(j), MlAnalysisOf(j))
    IN  /\ AnalysesOf(j) = { [ drift_event      |-> d,
                               cause_category   |-> ca.cause_category,
                               confidence_score |-> ca.confidence,
                               job              |-> j ] }
        /\ BatchOf(j) = { [ drift_event         |-> d,
                            recommendation_type |-> recs[i].recommendation_type,
                            priority            |-> recs[i].priority,
                            job                 |-> j,
                            n                   |-> i ] : i \in 1..Len(recs) }

Content(r) ==
    [ id |-> r.id, drift_event |-> r.drift_event, batch |-> r.batch,
      recommendation_type |-> r.recommendation_type, priority |-> r.priority,
      confidence_score |-> r.confidence_score, created_at |-> r.created_at,
      expires_at |-> r.expires_at ]

C21_NoBlockingAcrossDrifts ==
    /\ \A d \in Drifts : Len(jobs) < MaxJobs => ENABLED analyze(d)
    /\ \A j, k \in JobIds :
          (/\ jobs[j].drift # jobs[k].drift
           /\ NonTerminal(j)
           /\ NonTerminal(k))
          => ENABLED TaskStep(j)

\* two jobs of two different drifts are running at once
C21_Witness ==
    \E j, k \in JobIds :
        /\ jobs[j].drift # jobs[k].drift
        /\ jobs[j].state = "running"
        /\ jobs[k].state = "running"

\* the calls that a step has started
StartedCalls == { i \in 1..Len(page'.calls) : i > Len(page.calls) }

\* C22: an analyze request is sent only for a drift that the list on screen
\* shows as unresolved and without cause analysis, a resolve request only
\* for a drift it shows as unresolved.
C22_ActionsOnlyWhenOffered ==
    [][ \A i \in StartedCalls :
          LET c == page'.calls[i] IN
          /\ c.pc = "post"
          /\ ~page.shown[c.drift].is_resolved
          /\ c.kind = "analyze" => ~page.shown[c.drift].cause_analysis ]_vars

\* an analyze request and a resolve request for the same drift are in
\* flight: both were offered by the list on screen
C22_Witness ==
    \E i, k \in 1..Len(page.calls) :
        /\ page.calls[i].kind = "analyze" /\ page.calls[i].pc = "post"
        /\ page.calls[k].kind = "resolve" /\ page.calls[k].pc = "post"
        /\ page.calls[i].drift = page.calls[k].drift
        /\ ~page.shown[page.calls[i].drift].is_resolved
        /\ ~page.shown[page.calls[i].drift].cause_analysis

\* no call of a handler is waiting for an answer
AllCallsFinished ==
    \A i \in 1..Len(page.calls) : page.calls[i].pc \in {"done", "failed"}

\* C29: once every handleAnalyzeDrift and handleResolveDrift call has
\* finished, the list on screen is the answer of the getDrifts request that
\* was issued last (among those that were answered).
C29_ShownIsLatestRefresh ==
    (AllCallsFinished /\ page.delivered > 0) => page.shown = page.latest

\* C23: whenever the wizard is past the repository step with a GitHub URL
\* entered and the repository detected as private, a GitHub token has been
\* entered, also when the detection answers after Next was pressed.
C23_PrivateRepoHasToken ==
    ( /\ wiz.activeStep > 1
      /\ wiz.github_url /= "empty"
      /\ wiz.isPrivateRepo = "yes" ) => wiz.github_token

\* the handleFinish calls that wait for an answer to one of their requests
AwaitingFinish == { i \in FinishIds : wiz.finish[i].pc /= "idle" }

\* C24: while a handleFinish call is awaiting its requests no second
\* submission is started: at most one createEnvironment request per pass
\* through the wizard.
C24_OneSubmissionAtATime ==
    Cardinality(AwaitingFinish) <= 1

FormOf(w) == [ f \in FormFields |-> w[f] ]

\* C25: a handleFinish call sends createEnvironment first; when that fails
\* the call ends having sent nothing else, the error is set and the dialog,
\* the step and the form are left as they are; when it succeeds the call goes
\* on through createIaCRepository (if a URL was entered) and
\* setEnvironmentCredentials whatever they answer, then closes the dialog,
\* returns to step 0 with an empty form and starts loadData.
C25_FinishErrorHandling ==
    [][ \A i \in FinishIds :
          LET pc == wiz.finish[i].pc
              qc == wiz'.finish[i].pc IN
          /\ (pc = "idle" /\ qc /= "idle") => qc = "create"
          /\ (pc = "create" /\ qc = "idle") =>
                 /\ wiz'.error = "Failed to create environment"
                 /\ wiz'.createDialogOpen = wiz.createDialogOpen
                 /\ wiz'.activeStep = wiz.activeStep
                 /\ FormOf(wiz') = FormOf(wiz)
          /\ (pc = "create" /\ qc \notin {"create", "idle"}) =>
                 qc = IF wiz.finish[i].url THEN "repo" ELSE "cred"
          /\ (pc = "repo" /\ qc /= "repo") => qc = "cred"
          /\ (pc = "cred" /\ qc /= "cred") =>
                 /\ qc = "load"
                 /\ ~wiz'.createDialogOpen
                 /\ wiz'.activeStep = 0
                 /\ FormOf(wiz') = EmptyForm
                 /\ wiz'.loading ]_vars

\* one submission failed at createEnvironment and left its error, another
\* one went through and has closed the dialog and emptied the form
C25_Witness ==
    /\ wiz.error = "Failed to create environment"
    /\ \E i \in FinishIds : wiz.finish[i].pc = "load"
    /\ ~wiz.createDialogOpen /\ wiz.activeStep = 0
    /\ FormOf(wiz) = EmptyForm

RequiredEntered == wiz.name /\ wiz.region /\ wiz.account_id /\ wiz.credName

\* C26: activeStep stays within 0..3 and grows only by one, through Next,
\* when validateStep(activeStep) holds; the Review step is shown, and a
\* submission started, only with a non-empty name, region, account id and
\* credential name.
C26_StepsAndRequiredFields ==
    /\ [](wiz.activeStep \in 0..LastStep)
    /\ [](wiz.activeStep = LastStep => RequiredEntered)
    /\ [][ /\ wiz'.activeStep > wiz.activeStep =>
                /\ wiz'.activeStep = wiz.activeStep + 1
                /\ validateStep(wiz, wiz.activeStep)
           /\ \A i \in FinishIds :
                (wiz.finish[i].pc = "idle" /\ wiz'.finish[i].pc = "create")
                    => RequiredEntered ]_vars

\* the wizard is open on the Review step with the required fields entered
\* and a submission is under way
C26_Witness ==
    /\ wiz.createDialogOpen /\ wiz.activeStep = LastStep
    /\ \E i \in FinishIds : wiz.finish[i].pc = "create"
    /\ RequiredEntered

\* C27: the children of a PrivateRoute are on screen only while an access
\* token is stored; a PrivateRoute whose check finds no token goes from the
\* spinner to the redirect, never to its children, and the redirect leads
\* to /login.
C27_ChildrenOnlyWithToken ==
    /\ [](Screen(auth) = "children" => auth.storage.access_token /= "null")
    /\ [][ /\ ( /\ Screen(auth) = "spinner"
                /\ auth'.route = auth.route
                /\ auth'.storage.access_token = "null"
                /\ auth.storage.access_token = "null" )
                  => Screen(auth') \in {"spinner", "redirect"}
           /\ ( /\ Screen(auth) = "redirect"
                /\ auth'.storage = auth.storage
                /\ auth'.route \notin ProtectedRoutes )
                  => Screen(auth') \in {"login", "register"} ]_vars

\* a PrivateRoute has checked, found no token and renders the redirect,
\* while a login request is still in flight
C27_Witness ==
    /\ Screen(auth) = "redirect"
    /\ auth.storage.access_token = "null"
    /\ auth.op = ""
    /\ \E i \in RequestIds : auth.requests[i].kind = "login"

C30_OneReplyPerSend ==
    /\ [](chat.pending <= 1 /\ (chat.loading <=> chat.pending = 1))
    /\ [][ /\ chat'.pending > chat.pending =>
                /\ NonBlank(chat.input) /\ ~chat.loading
                /\ chat'.messages = Append(chat.messages, "user")
                /\ chat'.loading
           /\ chat'.pending < chat.pending =>
                /\ \E m \in {"answer", "error"} :
                      chat'.messages = Append(chat.messages, m)
                /\ ~chat'.loading
           /\ (chat'.loading /= chat.loading) => chat'.pending /= chat.pending ]_vars
    /\ (chat.loading ~> ~chat.loading)

\* two sends have been answered, one of them with the error text
C30_Witness ==
    /\ ~chat.loading
    /\ \E i, k \in 1..Len(chat.messages) :
         /\ i + 1 \in DOMAIN chat.messages /\ k + 1 \in DOMAIN chat.messages
         /\ chat.messages[i] = "user" /\ chat.messages[i + 1] = "answer"
         /\ chat.messages[k] = "user" /\ chat.messages[k + 1] = "error"


====
